---- MODULE Spec2Model ----
(***************************************************************************)
(* State-machine model of the threat-detection engine of AutoBots          *)
(* (src/core_bots/sentinelbot.py): SpiderThreatAPI (remote score + cache), *)
(* LocalThreatDetector (pattern rules + rate window) and SentinelBot       *)
(* (analyze_request, block_ip, unblock_ip, metrics, persistence).          *)
(*                                                                         *)
(* Python strings are sequences of one-character strings.  Floats that the *)
(* code compares are integers: scores in tenths (8.0 is 80), confidences   *)
(* in hundredths (0.95 is 95).  time.time() is the integer clock now, in   *)
(* seconds.  Coroutines run on one asyncio event loop: the code between    *)
(* two awaits is one atomic action.                                        *)
(***************************************************************************)
EXTENDS Integers, Sequences, FiniteSets, TLC

(***************************************************************************)
(* Strings                                                                 *)
(***************************************************************************)
UpperChars == <<"A", "B", "C", "D", "E", "F", "G", "H", "I", "J", "K", "L", "M", "N", "O", "P", "Q", "R", "S", "T", "U", "V", "W", "X", "Y", "Z">>

LowerChars == <<"a", "b", "c", "d", "e", "f", "g", "h", "i", "j", "k", "l", "m", "n", "o", "p", "q", "r", "s", "t", "u", "v", "w", "x", "y", "z">>

DigitChars == {"0", "1", "2", "3", "4", "5", "6", "7", "8", "9"}

\* str.lower() on one character
LowerChar(c) == IF \E i \in 1..26 : UpperChars[i] = c THEN LowerChars[CHOOSE i \in 1..26 : UpperChars[i] = c] ELSE c

\* str.lower()
Lower(s) == [i \in 1..Len(s) |-> LowerChar(s[i])]

\* the literal lit occurs in s at position i
HasAt(s, i, lit) == /\ i >= 1
                    /\ i + Len(lit) - 1 <= Len(s)
                    /\ \A k \in 1..Len(lit) : s[i + k - 1] = lit[k]

\* Python's  lit in s
Contains(s, lit) == \E i \in 1..(Len(s) + 1) : HasAt(s, i, lit)

\* Python's  sep.join(parts)
RECURSIVE Join(_, _)
Join(parts, sep) == IF Len(parts) = 0 THEN << >> ELSE IF Len(parts) = 1 THEN parts[1] ELSE parts[1] \o sep \o Join(Tail(parts), sep)

(***************************************************************************)
(* Regular expressions of the detector.  A pattern is a sequence of        *)
(* elements; an element is an alternation of literals (cls = "") or a      *)
(* repetition, min times or more, of one character class.  Patterns are    *)
(* written in lower case and searched in the lower-cased input, which is   *)
(* re.IGNORECASE for these patterns.                                       *)
(***************************************************************************)
Alt(lits) == [lits |-> lits, cls |-> "", min |-> 0]

Rep(cls, min) == [lits |-> {}, cls |-> cls, min |-> min]

InClass(cls, c) == CASE cls = "word" -> (\E i \in 1..26 : LowerChars[i] = c \/ UpperChars[i] = c) \/ c \in DigitChars \/ c = "_"
                     [] cls = "space" -> c \in {" ", "\t", "\n", "\r", "\f"}
                     [] cls = "space_or_plus" -> c \in {" ", "\t", "\n", "\r", "\f", "+"}
                     [] cls = "not_gt" -> c # ">"
                     [] cls = "dot" -> c # "\n"
                     [] OTHER -> FALSE

\* positions just after a match of element e that starts at position i
ElemEnds(e, s, i) == IF e.cls = "" THEN {i + Len(l) : l \in {m \in e.lits : HasAt(s, i, m)}} ELSE {j \in (i + e.min)..(Len(s) + 1) : \A k \in i..(j - 1) : InClass(e.cls, s[k])}

RECURSIVE MatchEnds(_, _, _, _)
MatchEnds(pat, k, s, starts) == IF k > Len(pat) THEN starts ELSE MatchEnds(pat, k + 1, s, UNION {ElemEnds(pat[k], s, i) : i \in starts})

\* re.search(pat, s, re.IGNORECASE)
re_search(pat, s) == \E i \in 1..(Len(s) + 1) : MatchEnds(pat, 1, Lower(s), {i}) # {}

Quote == {<<"%", "2", "7">>, <<"'">>}

sql_injection_patterns == <<
    <<Alt(Quote \cup {<<"-", "-">>, <<"%", "2", "3">>, <<"#">>})>>,
    <<Alt({<<"%", "3", "d">>, <<"=">>}), Rep("dot", 0), Alt(Quote \cup {<<"-", "-">>, <<"%", "3", "b">>, <<";">>})>>,
    <<Rep("word", 0), Alt(Quote), Alt({<<"%", "6", "f">>, <<"o">>, <<"%", "4", "f">>}), Alt({<<"%", "7", "2">>, <<"r">>, <<"%", "5", "2">>})>>,
    <<Alt(Quote), Alt({<<"u", "n", "i", "o", "n">>})>>,
    <<Alt({<<"e", "x", "e", "c">>}), Rep("space_or_plus", 1), Alt({<<"s">>, <<"x">>}), Alt({<<"p">>}), Rep("word", 1)>> >>

xss_patterns == <<
    <<Alt({<<"<", "s", "c", "r", "i", "p", "t">>}), Rep("not_gt", 0), Alt({<<">">>}), Rep("dot", 0), Alt({<<"<", "/", "s", "c", "r", "i", "p", "t", ">">>})>>,
    <<Alt({<<"j", "a", "v", "a", "s", "c", "r", "i", "p", "t", ":">>})>>,
    <<Alt({<<"o", "n">>}), Rep("word", 1), Rep("space", 0), Alt({<<"=">>})>>,
    <<Alt({<<"<", "i", "f", "r", "a", "m", "e">>}), Rep("not_gt", 0), Alt({<<">">>}), Rep("dot", 0), Alt({<<"<", "/", "i", "f", "r", "a", "m", "e", ">">>})>>,
    <<Alt({<<"<", "o", "b", "j", "e", "c", "t">>}), Rep("not_gt", 0), Alt({<<">">>}), Rep("dot", 0), Alt({<<"<", "/", "o", "b", "j", "e", "c", "t", ">">>})>> >>

path_traversal_patterns == <<
    <<Alt({<<".", ".", "/">>})>>,
    <<Alt({<<".", ".", "\\">>})>>,
    <<Alt({<<"%", "2", "e", "%", "2", "e", "%", "2", "f">>})>>,
    <<Alt({<<"%", "2", "e", "%", "2", "e", "/">>})>>,
    <<Alt({<<".", ".", "%", "2", "f">>})>> >>

suspicious_user_agents == <<
    <<"s", "q", "l", "m", "a", "p">>, <<"n", "i", "k", "t", "o">>, <<"n", "m", "a", "p">>,
    <<"m", "a", "s", "s", "c", "a", "n">>, <<"z", "a", "p">>, <<"b", "u", "r", "p">>,
    <<"a", "c", "u", "n", "e", "t", "i", "x">>, <<"n", "e", "s", "s", "u", "s">>,
    <<"o", "p", "e", "n", "v", "a", "s">>, <<"w", "3", "a", "f">>,
    <<"s", "k", "i", "p", "f", "i", "s", "h">> >>

suspicious_headers == {<<"x", "-", "f", "o", "r", "w", "a", "r", "d", "e", "d", "-", "f", "o", "r">>, <<"x", "-", "r", "e", "a", "l", "-", "i", "p">>, <<"x", "-", "o", "r", "i", "g", "i", "n", "a", "t", "i", "n", "g", "-", "i", "p">>}

rate_limit_window == 60

rate_limit_threshold == 100

cache_ttl == 300

(***************************************************************************)
(* Requests.  A request is a Python dict: a key may be missing, and        *)
(* request_data.get(key, default) then gives the default.                  *)
(***************************************************************************)
Get(d, key, default) == IF key \in DOMAIN d THEN d[key] ELSE default

IP_A == <<"1">>

IP_B == <<"1", "2">>

UA_23 == <<"2", "3">>

UA_3 == <<"3">>

UA_Sqlmap == <<"s", "q", "l", "m", "a", "p", "/", "1", ".", "0">>

Path_Plain == <<"/", "a">>

Path_Traversal == <<"/", ".", ".", "/", "a">>

Path_Sqli == <<"/", "a", "'", " ", "O", "R", " ", "'", "1", "'", "=", "'", "1">>

Path_All == <<"/", ".", ".", "/", "a", "'", " ", "O", "R", " ", "'", "1", "'", "=", "'", "1">>

Param_Xss == <<"<", "S", "c", "r", "i", "p", "t", ">", "x", "<", "/", "s", "c", "r", "i", "p", "t", ">">>

\* headers are the dict's items in insertion order: <<name, value>>
Hdr_Injected == <<<<<<"X", "-", "F", "o", "r", "w", "a", "r", "d", "e", "d", "-", "F", "o", "r">>, <<"1", "\n", "2">>>>>>

Hdr_CookieCR == <<<<<<"c", "o", "o", "k", "i", "e">>, <<"a", "\r", "b">>>>>>

\* the request shapes the model classifies (everything of a request but its ip)
Shape_Benign == [user_agent |-> UA_23, path |-> Path_Plain, query_params |-> << >>, headers |-> Hdr_CookieCR]

Shape_Traversal23 == [user_agent |-> UA_23, path |-> Path_Traversal, query_params |-> << >>, headers |-> << >>]

Shape_Traversal3 == [user_agent |-> UA_3, path |-> Path_Traversal, query_params |-> << >>, headers |-> << >>]

Shape_Sqlmap == [user_agent |-> UA_Sqlmap, path |-> Path_Plain, query_params |-> << >>, headers |-> << >>]

Shape_SqlmapHdr == [user_agent |-> UA_Sqlmap, path |-> Path_Plain, query_params |-> << >>, headers |-> Hdr_Injected]

Shape_Sqli == [user_agent |-> UA_23, path |-> Path_Sqli, query_params |-> << >>, headers |-> << >>]

Shape_All == [user_agent |-> UA_Sqlmap, path |-> Path_All, query_params |-> <<Param_Xss>>, headers |-> Hdr_Injected]

IPs == {IP_A, IP_B}

WithIp(shape, ip) == [ip |-> ip, user_agent |-> shape.user_agent, path |-> shape.path, query_params |-> shape.query_params, headers |-> shape.headers]

\* the requests the model classifies; the last one has no 'ip' key
Requests == {
    WithIp(Shape_All, IP_A), WithIp(Shape_Sqlmap, IP_A), WithIp(Shape_Benign, IP_B), Shape_Sqlmap }

\* every shape from every ip and without ip: the inputs of the rules
Shapes == {Shape_Benign, Shape_Traversal23, Shape_Traversal3, Shape_Sqlmap, Shape_SqlmapHdr, Shape_Sqli, Shape_All}

AllRequests == {WithIp(sh, ip) : sh \in Shapes, ip \in IPs} \cup Shapes

(***************************************************************************)
(* LocalThreatDetector: the six rules                                      *)
(***************************************************************************)
NoSignal == [type |-> "none", severity |-> 0]

\* path + " " + " ".join(str(v) for v in params.values())
combined_input(path, params) == path \o <<" ">> \o Join(params, <<" ">>)

_check_sql_injection(path, params) == IF \E n \in 1..Len(sql_injection_patterns) : re_search(sql_injection_patterns[n], combined_input(path, params)) THEN [type |-> "sql_injection", severity |-> 9] ELSE NoSignal

_check_xss(path, params) == IF \E n \in 1..Len(xss_patterns) : re_search(xss_patterns[n], combined_input(path, params)) THEN [type |-> "xss", severity |-> 7] ELSE NoSignal

_check_path_traversal(path) == IF \E n \in 1..Len(path_traversal_patterns) : re_search(path_traversal_patterns[n], path) THEN [type |-> "path_traversal", severity |-> 6] ELSE NoSignal

_check_user_agent(user_agent) == IF \E n \in 1..Len(suspicious_user_agents) : Contains(Lower(user_agent), suspicious_user_agents[n]) THEN [type |-> "suspicious_user_agent", severity |-> 5] ELSE NoSignal

_check_suspicious_headers(headers) == IF \E n \in 1..Len(headers) : Lower(headers[n][1]) \in suspicious_headers /\ (Contains(headers[n][2], <<"\n">>) \/ Contains(headers[n][2], <<"\r">>)) THEN [type |-> "header_injection", severity |-> 7] ELSE NoSignal

(***************************************************************************)
(* LocalThreatDetector: the rate window.  request_counts maps an ip to     *)
(* the list of its (timestamp, count) entries.                             *)
(***************************************************************************)
\* the sum of the counts of entries[lo..hi], by halves
RECURSIVE SumCountsIn(_, _, _)
SumCountsIn(entries, lo, hi) == IF lo > hi THEN 0
                                ELSE IF lo = hi THEN entries[lo][2]
                                ELSE SumCountsIn(entries, lo, (lo + hi) \div 2) + SumCountsIn(entries, (lo + hi) \div 2 + 1, hi)

\* sum(count for _, count in entries)
SumCounts(entries) == SumCountsIn(entries, 1, Len(entries))

\* InWindow that keeps the entry made exactly one window ago
InWindow_Inclusive(entry, current_time) == entry[1] >= current_time - rate_limit_window

InWindow(entry, current_time) == entry[1] > current_time - rate_limit_window

\* "Clean old entries": every ip keeps its entries newer than the cutoff
CleanOld(counts, current_time) == [k \in DOMAIN counts |-> SelectSeq(counts[k], LAMBDA e : InWindow(e, current_time))]

\* AddCurrent that appends the new entry to the list of every ip
AddCurrent_Everyone(counts, ip, current_time) == [k \in DOMAIN counts \cup {ip} |-> Append(IF k \in DOMAIN counts THEN counts[k] ELSE << >>, <<current_time, 1>>)]

\* AddCurrent with an assignment of the new entry for the append
AddCurrent_Overwrite(counts, ip, current_time) == [k \in DOMAIN counts \cup {ip} |-> IF k = ip THEN <<<<current_time, 1>>>> ELSE counts[k]]

\* "Add current request"
AddCurrent(counts, ip, current_time) == [k \in DOMAIN counts \cup {ip} |-> IF k = ip THEN Append(IF ip \in DOMAIN counts THEN counts[ip] ELSE << >>, <<current_time, 1>>) ELSE counts[k]]

\* RateRecord when a window that is full takes no new entry
RateRecord_FullSkips(counts, ip, current_time) == IF ip \in DOMAIN counts /\ Len(CleanOld(counts, current_time)[ip]) >= rate_limit_threshold
                                                  THEN CleanOld(counts, current_time)
                                                  ELSE AddCurrent(CleanOld(counts, current_time), ip, current_time)

\* request_counts after _check_rate_limiting(ip)
RateRecord(counts, ip, current_time) == AddCurrent(CleanOld(counts, current_time), ip, current_time)

\* RateExceeded with >= for >
RateExceeded_AtThreshold(total_requests) == total_requests >= rate_limit_threshold

RateExceeded(total_requests) == total_requests > rate_limit_threshold

\* the signal of _check_rate_limiting(ip), given request_counts after the call
_check_rate_limiting(counts_after, ip) == IF RateExceeded(SumCounts(counts_after[ip])) THEN [type |-> "rate_limit_violation", severity |-> 6] ELSE NoSignal

(***************************************************************************)
(* LocalThreatDetector.analyze_request                                     *)
(***************************************************************************)
MaxOf(a, b) == IF a >= b THEN a ELSE b

MinOf(a, b) == IF a <= b THEN a ELSE b

\* MaxSeverity that takes the severity of the first threat
MaxSeverity_First(threats) == IF Len(threats) = 0 THEN 0 ELSE threats[1].severity

RECURSIVE MaxSeverity(_)
MaxSeverity(threats) == IF Len(threats) = 0 THEN 0 ELSE MaxOf(threats[1].severity, MaxSeverity(Tail(threats)))

\* "Determine recommended action"
ActionFor(max_severity) == IF max_severity >= 8 THEN "block_immediately" ELSE IF max_severity >= 5 THEN "rate_limit" ELSE IF max_severity >= 3 THEN "monitor_closely" ELSE "allow"

\* min(0.95, len(threats) * 0.2 + (max_severity / 10) * 0.5), in hundredths
Confidence(threats, max_severity) == MinOf(95, Len(threats) * 20 + max_severity * 5)

\* the five checks that read the request alone, for every request of the model
PatternSignals == [request_data \in AllRequests |-> <<
    _check_sql_injection(Get(request_data, "path", << >>), Get(request_data, "query_params", << >>)),
    _check_xss(Get(request_data, "path", << >>), Get(request_data, "query_params", << >>)),
    _check_path_traversal(Get(request_data, "path", << >>)),
    _check_user_agent(Get(request_data, "user_agent", << >>)),
    _check_suspicious_headers(Get(request_data, "headers", << >>)) >>]

\* the six checks in the order of the code; the checks that found nothing add nothing
RuleResults(request_data, counts_after) == <<
    PatternSignals[request_data][1],
    PatternSignals[request_data][2],
    PatternSignals[request_data][3],
    PatternSignals[request_data][4],
    _check_rate_limiting(counts_after, Get(request_data, "ip", << >>)),
    PatternSignals[request_data][5] >>

Threats(request_data, counts_after) == SelectSeq(RuleResults(request_data, counts_after), LAMBDA t : t # NoSignal)

\* the ThreatDetection that LocalThreatDetector.analyze_request returns
LocalDetection(request_data, counts_after) == LET threats == Threats(request_data, counts_after)
                                                  max_severity == MaxSeverity(threats)
                                              IN [threat_type |-> IF Len(threats) > 0 THEN threats[1].type ELSE "none",
                                                  severity_level |-> max_severity,
                                                  confidence |-> Confidence(threats, max_severity),
                                                  source_ip |-> Get(request_data, "ip", << >>),
                                                  user_agent |-> Get(request_data, "user_agent", << >>),
                                                  request_path |-> Get(request_data, "path", << >>),
                                                  threats |-> threats,
                                                  spider_score |-> 0,
                                                  recommended_action |-> ActionFor(max_severity)]


(***************************************************************************)
(* SpiderThreatAPI                                                         *)
(***************************************************************************)
\* md5(ip + user_agent + path): the digest is named by the string it digests
cache_key(request_data) == Get(request_data, "ip", << >>) \o Get(request_data, "user_agent", << >>) \o Get(request_data, "path", << >>)

\* a Python value that is not a number (None, a str), where a score is expected
NotANumber == -1

\* what response.json() can give: a JSON object with a numeric threat_score, with
\* none, with one that is no number (null, a string), or JSON that is no object
ScoreBody(score) == [json |-> "object", has_score |-> TRUE, score_is_number |-> TRUE, threat_score |-> score]

Body_NoScore == [json |-> "object", has_score |-> FALSE, score_is_number |-> FALSE, threat_score |-> 0]

Body_NullScore == [json |-> "object", has_score |-> TRUE, score_is_number |-> FALSE, threat_score |-> 0]

Body_Array == [json |-> "array", has_score |-> FALSE, score_is_number |-> FALSE, threat_score |-> 0]

\* {"threat_score": 0.0, "threat_types": [], "reputation": "unknown"}
NeutralResult == ScoreBody(0)

\* the threat scores the remote service answers with, in tenths
Scores == {80, 90}

JsonBodies == {ScoreBody(x) : x \in Scores} \cup {Body_NoScore, Body_NullScore, Body_Array}

\* what the POST can end in: a 200 with a JSON body, a 200 whose body is no
\* JSON (response.json() raises), another status, a transport error
Responses == {[exc |-> "none", status |-> 200, body |-> b] : b \in JsonBodies} \cup {[exc |-> "JSONDecodeError", status |-> 200, body |-> NeutralResult], [exc |-> "none", status |-> 503, body |-> NeutralResult], [exc |-> "ClientError", status |-> 0, body |-> NeutralResult]}

\* the classes below Exception that the calls of this module raise
\* (asyncio.CancelledError is a BaseException and is not among them)
ExceptionClasses == {"TimeoutError", "ClientError", "JSONDecodeError", "AttributeError", "TypeError", "PostgresError", "OSError"}

\* except asyncio.TimeoutError / except Exception  of analyze_threat
AnalyzeThreatCatches(exc) == exc = "TimeoutError" \/ exc \in ExceptionClasses

\* CacheFresh with <= for <
CacheFresh_Inclusive(timestamp, current_time) == current_time - timestamp <= cache_ttl

\* time.time() - timestamp < self.cache_ttl
CacheFresh(timestamp, current_time) == current_time - timestamp < cache_ttl

CacheHit(c, key, current_time) == key \in DOMAIN c /\ CacheFresh(c[key].timestamp, current_time)

\* self.cache[cache_key] = (result, time.time())
CachePut(c, key, result, current_time) == [k \in DOMAIN c \cup {key} |-> IF k = key THEN [result |-> result, timestamp |-> current_time] ELSE c[k]]

\* CacheAfter when the neutral result of a failed POST is stored as well
CacheAfter_StoreNeutral(c, key, resp, current_time) == CachePut(c, key, IF resp.exc = "none" /\ resp.status = 200 THEN resp.body ELSE NeutralResult, current_time)

\* CacheAfter without the assignment to self.cache
CacheAfter_NoStore(c, key, resp, current_time) == c

\* the cache after the POST ended in resp: only a 200 whose JSON was read is stored
CacheAfter(c, key, resp, current_time) == IF resp.exc = "none" /\ resp.status = 200 THEN CachePut(c, key, resp.body, current_time) ELSE c

\* what analyze_threat returns when the POST ended in resp
ThreatResult(resp) == IF resp.exc = "none" /\ resp.status = 200 THEN resp.body ELSE NeutralResult

\* the exception that leaves analyze_threat when the POST ended in resp
ThreatRaises(resp) == IF resp.exc # "none" /\ ~AnalyzeThreatCatches(resp.exc) THEN resp.exc ELSE "none"

(***************************************************************************)
(* SentinelBot                                                             *)
(***************************************************************************)
\* FastPath with the two tests in the other order
FastPath_BlockFirst(source_ip, whitelist, blocked) == IF source_ip \in blocked THEN "blocked" ELSE IF source_ip \in whitelist THEN "whitelisted" ELSE "analyze"

\* FastPath without the test of whitelist_ips
FastPath_NoAllow(source_ip, whitelist, blocked) == IF source_ip \in blocked THEN "blocked" ELSE "analyze"

\* FastPath without the test of blocked_ips
FastPath_NoBlock(source_ip, whitelist, blocked) == IF source_ip \in whitelist THEN "whitelisted" ELSE "analyze"

\* "Quick IP whitelist/blacklist check"
FastPath(source_ip, whitelist, blocked) == IF source_ip \in whitelist THEN "whitelisted" ELSE IF source_ip \in blocked THEN "blocked" ELSE "analyze"

_create_safe_detection(request_data) == [threat_type |-> "none", severity_level |-> 0, confidence |-> 100,
                                         source_ip |-> Get(request_data, "ip", << >>), user_agent |-> Get(request_data, "user_agent", << >>),
                                         request_path |-> Get(request_data, "path", << >>), threats |-> << >>,
                                         spider_score |-> 0, recommended_action |-> "allow"]

_create_blocked_detection(request_data) == [threat_type |-> "blocked_ip", severity_level |-> 10, confidence |-> 100,
                                            source_ip |-> Get(request_data, "ip", << >>), user_agent |-> Get(request_data, "user_agent", << >>),
                                            request_path |-> Get(request_data, "path", << >>), threats |-> << >>,
                                            spider_score |-> 100, recommended_action |-> "block_immediately"]

\* AfterLocal without the test  severity_level >= 5  before the remote step
AfterLocal_LowRemote(severity_level) == IF severity_level >= 8 THEN "store" ELSE "remote_lookup"

\* AfterLocal without the early return of a high severity
AfterLocal_RemoteFirst(severity_level) == IF severity_level >= 5 THEN "remote_lookup" ELSE "store"

\* where analyze_request goes after the local detection: severity >= 8 stores at
\* once, severity >= 5 asks spider.cloud first, anything lower stores
AfterLocal(severity_level) == IF severity_level >= 8 THEN "store" ELSE IF severity_level >= 5 THEN "remote_lookup" ELSE "store"

\* spider_result.get('threat_score', 0.0)
GetThreatScore(spider_result) == IF ~spider_result.has_score THEN 0 ELSE IF spider_result.score_is_number THEN spider_result.threat_score ELSE NotANumber

\* Escalates with 9.0 for 8.0
Escalates_Above9(score) == score > 90

\* Escalates with >= for >
Escalates_From8(score) == score >= 80

\* spider_result.get('threat_score', 0) > 8.0
Escalates(score) == score > 80

\* the exception raised while the spider.cloud result is applied: .get on what
\* is no dict, or the comparison of what is no number with 8.0
ApplyRaises(spider_result) == IF spider_result.json # "object" THEN "AttributeError" ELSE IF GetThreatScore(spider_result) = NotANumber THEN "TypeError" ELSE "none"

\* ApplySpider without the assignment to recommended_action
ApplySpider_SeverityOnly(detection, spider_result) == IF spider_result.json # "object" THEN detection
                                                      ELSE IF GetThreatScore(spider_result) = NotANumber THEN [detection EXCEPT !.spider_score = NotANumber]
                                                      ELSE IF Escalates(GetThreatScore(spider_result)) THEN [detection EXCEPT !.spider_score = GetThreatScore(spider_result), !.severity_level = MaxOf(@, 9)]
                                                      ELSE [detection EXCEPT !.spider_score = GetThreatScore(spider_result)]

\* local_detection after "Update detection with spider.cloud data" and "Adjust
\* severity": the assignments made before an exception stay made
ApplySpider(detection, spider_result) == IF spider_result.json # "object" THEN detection
                                         ELSE IF GetThreatScore(spider_result) = NotANumber THEN [detection EXCEPT !.spider_score = NotANumber]
                                         ELSE IF Escalates(GetThreatScore(spider_result)) THEN [detection EXCEPT !.spider_score = GetThreatScore(spider_result), !.severity_level = MaxOf(@, 9), !.recommended_action = "block_immediately"]
                                         ELSE [detection EXCEPT !.spider_score = GetThreatScore(spider_result)]

\* except asyncio.TimeoutError / except Exception  of analyze_request
AnalyzeRequestCatches(exc) == exc = "TimeoutError" \/ exc \in ExceptionClasses

\* StoreCatches with  except asyncio.TimeoutError  for  except Exception
StoreCatches_TimeoutOnly(exc) == exc = "TimeoutError"

\* except Exception  of _store_threat_detection
StoreCatches(exc) == exc \in ExceptionClasses

\* what the database write can end in: done, or an exception of the pool or the query
StoreOutcomes == {"none", "PostgresError"}

\* the row _store_threat_detection inserts
ThreatRow(detection, current_time) == [threat_type |-> detection.threat_type, severity_level |-> detection.severity_level, source_ip |-> detection.source_ip,
                                       status |-> IF detection.severity_level > 0 THEN "active" ELSE "resolved", detection_time |-> current_time]

\* the row block_ip inserts
ManualBlockRow(ip, current_time) == [threat_type |-> "manual_block", severity_level |-> 10, source_ip |-> ip, status |-> "active", detection_time |-> current_time]

\* the rows after unblock_ip's UPDATE
ResolveRows(rows, ip) == {IF r.source_ip = ip /\ r.status = "active" THEN [r EXCEPT !.status = "resolved"] ELSE r : r \in rows}

Day == 86400

\* LoadBlocked without the 24 hours of the WHERE clause
LoadBlocked_NoWindow(rows, current_time) == {r.source_ip : r \in {x \in rows : x.severity_level >= 8 /\ x.status = "active"}}

\* the SELECT of _load_blocked_ips
LoadBlocked(rows, current_time) == {r.source_ip : r \in {x \in rows : x.severity_level >= 8 /\ x.detection_time >= current_time - Day /\ x.status = "active"}}

\* BlockedAdd when the set is only changed after the INSERT
BlockedAdd_AfterInsert(blocked, ip) == blocked

\* self.blocked_ips.add(ip)
BlockedAdd(blocked, ip) == blocked \cup {ip}

\* BlockedDiscard that empties the set
BlockedDiscard_Clear(blocked, ip) == {}

\* self.blocked_ips.discard(ip)
BlockedDiscard(blocked, ip) == blocked \ {ip}


(***************************************************************************)
(* Bounds of the model                                                     *)
(***************************************************************************)
\* classifications (calls of analyze_request) in one behaviour
MaxCalls == 2

\* calls of block_ip and unblock_ip in one behaviour
MaxAdminOps == 1

\* the clock stops here
MaxTime == 300

\* the steps the clock advances by
TickSteps == {300}

\* the allow lists an administrator may have provisioned (the code only reads whitelist_ips)
AllowLists == {{}, {IP_A}}

\* what the threats table may hold when the bot starts
DbSeeds == {{[threat_type |-> "sql_injection", severity_level |-> 9, source_ip |-> IP_B, status |-> "active", detection_time |-> 0]}}

(***************************************************************************)
(* State                                                                   *)
(***************************************************************************)
VARIABLES
    now,              \* time.time()
    phase,            \* "constructed" until initialize() has run, then "ready"
    whitelist_ips,    \* SentinelBot.whitelist_ips
    blocked_ips,      \* SentinelBot.blocked_ips
    request_counts,   \* LocalThreatDetector.request_counts
    cache,            \* SpiderThreatAPI.cache
    detection_count,  \* SentinelBot.detection_count
    db_threats,       \* the rows of the threats table
    calls,            \* the calls of analyze_request: where each one is, and its local_detection
    admin,            \* the call of block_ip / unblock_ip that awaits the database, if any
    admin_ops,        \* calls of block_ip and unblock_ip made so far
    last_admin,       \* per ip, the last of block_ip / unblock_ip called for it
    burst,            \* what the rate checks of a burst of requests met (SpecRate)
    timed,            \* one call of analyze_request with its elapsed milliseconds (SpecOne)
    boot              \* the calls of initialize made so far, and how the last load of blocked_ips ended

vars == <<now, phase, whitelist_ips, blocked_ips, request_counts, cache, detection_count, db_threats, calls, admin, admin_ops, last_admin, burst, timed, boot>>

CallIds == 1..MaxCalls

NoRequest == [none |-> TRUE]

NoDetection == [threat_type |-> "unset", severity_level |-> 0, confidence |-> 0, source_ip |-> << >>, user_agent |-> << >>, request_path |-> << >>, threats |-> << >>, spider_score |-> 0, recommended_action |-> "unset"]

NoResponse == [exc |-> "none", status |-> 0, body |-> NeutralResult]

\* a call that was not made yet.  Beside pc, request and detection (the call's
\* local_detection, then its result) a call records what it met: whether its
\* ip was on the lists when it entered, the last block_ip / unblock_ip called
\* for its ip by then and whether that call still awaited the database, the
\* severity the local detection gave (-1: none ran), how the remote step went
\* (the POSTs it issued, what the POST ended in and when its 200 was cached,
\* -1: none was), and the rows it handed to the database.
IdleCall == [pc |-> "idle", request |-> NoRequest, detection |-> NoDetection,
             in_allow |-> FALSE, in_block |-> FALSE, entry_admin |-> "none", entry_pending |-> FALSE,
             local_severity |-> -1,
             remote |-> "none", posts |-> 0, response |-> NoResponse, cached_at |-> -1,
             stores |-> 0]

\* per ip, while every request made for it so far lies within one window of the
\* first (open): the number of these requests, the time of the first, and the
\* threats that the local detection of the last one found; and at all times
\* the ip of the last request (last), the threats its local detection found
\* (threats), and whether a rate check of the ip ever reported a violation
\* no call of analyze_request is being timed
NoTimed == [pc |-> "idle", request |-> NoRequest, local |-> NoDetection, detection |-> NoDetection, detection_time |-> 0,
            clock |-> 0, timeout |-> -1, waited |-> 0, total |-> -1]

\* initialize was not called yet
NoBoot == [loads |-> 0, result |-> "none"]

NoBurst == [open |-> [ip \in IPs |-> TRUE], n |-> [ip \in IPs |-> 0], first |-> [ip \in IPs |-> 0], threats |-> [ip \in IPs |-> << >>],
            last |-> << >>, exceeded |-> [ip \in IPs |-> FALSE]]

Init == /\ now = 0
        /\ phase = "constructed"
        /\ whitelist_ips \in AllowLists
        /\ blocked_ips = {}
        /\ request_counts = << >>
        /\ cache = << >>
        /\ detection_count = 0
        /\ db_threats \in DbSeeds
        /\ calls = [c \in CallIds |-> IdleCall]
        /\ admin = [pc |-> "idle", ip |-> << >>, raised |-> "none"]
        /\ admin_ops = 0
        /\ last_admin = [ip \in IPs |-> "none"]
        /\ burst = NoBurst
        /\ timed = NoTimed
        /\ boot = NoBoot

(***************************************************************************)
(* Actions                                                                 *)
(***************************************************************************)
\* SentinelBot.initialize: _load_blocked_ips replaces blocked_ips by the
\* SELECT's rows, or logs the exception and leaves it
Initialize(exc) == /\ phase = "constructed"
                   /\ phase' = "ready"
                   /\ blocked_ips' = IF exc = "none" THEN LoadBlocked(db_threats, now) ELSE blocked_ips
                   /\ boot' = [loads |-> boot.loads + 1, result |-> IF exc = "none" THEN "loaded" ELSE exc]
                   /\ UNCHANGED <<now, whitelist_ips, request_counts, cache, detection_count, db_threats, calls, admin, admin_ops, last_admin, burst, timed>>

\* Enter when the local detection, and so the rate check, runs before the lists are looked at
Enter_ListsAfterLocal(c, request_data) == /\ phase = "ready"
                                          /\ calls[c].pc = "idle"
                                          /\ IF c = 1 THEN TRUE ELSE calls[c - 1].pc # "idle"
                                          /\ LET source_ip == Get(request_data, "ip", << >>)
                                                 way == FastPath(source_ip, whitelist_ips, blocked_ips)
                                                 counts_after == RateRecord(request_counts, source_ip, now)
                                                 local_detection == LocalDetection(request_data, counts_after)
                                                 met == [IdleCall EXCEPT !.request = request_data,
                                                                         !.in_allow = source_ip \in whitelist_ips,
                                                                         !.in_block = source_ip \in blocked_ips,
                                                                         !.entry_admin = IF source_ip \in IPs THEN last_admin[source_ip] ELSE "none",
                                                                         !.entry_pending = admin.pc # "idle" /\ admin.ip = source_ip]
                                             IN /\ request_counts' = counts_after
                                                /\ calls' = [calls EXCEPT ![c] = CASE way = "whitelisted" -> [met EXCEPT !.pc = "done", !.detection = _create_safe_detection(request_data)]
                                                                                    [] way = "blocked" -> [met EXCEPT !.pc = "done", !.detection = _create_blocked_detection(request_data)]
                                                                                    [] OTHER -> [met EXCEPT !.pc = AfterLocal(local_detection.severity_level), !.detection = local_detection, !.local_severity = local_detection.severity_level]]
                                          /\ UNCHANGED <<now, phase, whitelist_ips, blocked_ips, cache, detection_count, db_threats, admin, admin_ops, last_admin, burst, timed, boot>>

\* analyze_request from its entry to its first await (or to its return)
Enter(c, request_data) == /\ phase = "ready"
                          /\ calls[c].pc = "idle"
                          /\ IF c = 1 THEN TRUE ELSE calls[c - 1].pc # "idle"
                          /\ LET source_ip == Get(request_data, "ip", << >>)
                                 way == FastPath(source_ip, whitelist_ips, blocked_ips)
                                 counts_after == RateRecord(request_counts, source_ip, now)
                                 local_detection == LocalDetection(request_data, counts_after)
                                 met == [IdleCall EXCEPT !.request = request_data,
                                                         !.in_allow = source_ip \in whitelist_ips,
                                                         !.in_block = source_ip \in blocked_ips,
                                                         !.entry_admin = IF source_ip \in IPs THEN last_admin[source_ip] ELSE "none",
                                                         !.entry_pending = admin.pc # "idle" /\ admin.ip = source_ip]
                             IN CASE way = "whitelisted" -> /\ calls' = [calls EXCEPT ![c] = [met EXCEPT !.pc = "done", !.detection = _create_safe_detection(request_data)]]
                                                            /\ UNCHANGED request_counts
                                  [] way = "blocked" -> /\ calls' = [calls EXCEPT ![c] = [met EXCEPT !.pc = "done", !.detection = _create_blocked_detection(request_data)]]
                                                        /\ UNCHANGED request_counts
                                  [] OTHER -> /\ calls' = [calls EXCEPT ![c] = [met EXCEPT !.pc = AfterLocal(local_detection.severity_level), !.detection = local_detection, !.local_severity = local_detection.severity_level]]
                                              /\ request_counts' = counts_after
                          /\ UNCHANGED <<now, phase, whitelist_ips, blocked_ips, cache, detection_count, db_threats, admin, admin_ops, last_admin, burst, timed, boot>>

\* AfterRemote when the POST is not cancelled at the timeout
AfterRemote_NotCancelled(call, detection, exc, how, resp) == [call EXCEPT !.pc = IF how = "timeout" THEN "remote_wait" ELSE IF exc # "none" /\ ~AnalyzeRequestCatches(exc) THEN "raised" ELSE "store",
                                                                           !.detection = detection, !.remote = how, !.response = resp]

\* AfterRemote when a timeout calls analyze_threat again
AfterRemote_Retry(call, detection, exc, how, resp) == [call EXCEPT !.pc = IF exc = "TimeoutError" THEN "remote_lookup" ELSE IF exc # "none" /\ ~AnalyzeRequestCatches(exc) THEN "raised" ELSE "store",
                                                                    !.detection = detection, !.remote = how, !.response = resp]

\* what the remote step leaves of a call: an exception analyze_request does not
\* catch ends the call, anything else goes on to the store
AfterRemote(call, detection, exc, how, resp) == [call EXCEPT !.pc = IF exc # "none" /\ ~AnalyzeRequestCatches(exc) THEN "raised" ELSE "store",
                                                              !.detection = detection, !.remote = how, !.response = resp]

\* analyze_threat from its entry to the POST: a fresh cache entry is returned,
\* and applied to local_detection; otherwise the POST is issued
RemoteLookup(c) == /\ calls[c].pc = "remote_lookup"
                   /\ LET key == cache_key(calls[c].request)
                      IN IF CacheHit(cache, key, now)
                         THEN calls' = [calls EXCEPT ![c] = AfterRemote(@, ApplySpider(@.detection, cache[key].result), ApplyRaises(cache[key].result), "cache_hit", NoResponse)]
                         ELSE calls' = [calls EXCEPT ![c].pc = "remote_wait", ![c].posts = @ + 1]
                   /\ UNCHANGED <<now, phase, whitelist_ips, blocked_ips, request_counts, cache, detection_count, db_threats, admin, admin_ops, last_admin, burst, timed, boot>>

\* the POST ends within the 30 ms of wait_for: analyze_threat caches and returns,
\* and analyze_request applies the result to local_detection
RemoteRespond(c, resp) == /\ calls[c].pc = "remote_wait"
                          /\ cache' = CacheAfter(cache, cache_key(calls[c].request), resp, now)
                          /\ calls' = [calls EXCEPT ![c] = IF ThreatRaises(resp) # "none"
                                                           THEN AfterRemote(@, @.detection, ThreatRaises(resp), "answered", resp)
                                                           ELSE AfterRemote([@ EXCEPT !.cached_at = IF resp.exc = "none" /\ resp.status = 200 THEN now ELSE -1],
                                                                            ApplySpider(@.detection, ThreatResult(resp)), ApplyRaises(ThreatResult(resp)), "answered", resp)]
                          /\ UNCHANGED <<now, phase, whitelist_ips, blocked_ips, request_counts, detection_count, db_threats, admin, admin_ops, last_admin, burst, timed, boot>>

\* wait_for's 30 ms pass first: analyze_threat is cancelled, wait_for raises
\* asyncio.TimeoutError, which analyze_request catches
RemoteTimeout(c) == /\ calls[c].pc = "remote_wait"
                    /\ calls' = [calls EXCEPT ![c] = AfterRemote(@, @.detection, "TimeoutError", "timeout", NoResponse)]
                    /\ UNCHANGED <<now, phase, whitelist_ips, blocked_ips, request_counts, cache, detection_count, db_threats, admin, admin_ops, last_admin, burst, timed, boot>>

\* _store_threat_detection ends (exc: what the database raised), then
\* _update_metrics, then analyze_request returns local_detection
StoreDone(c, exc) == /\ calls[c].pc = "store"
                     /\ db_threats' = IF exc = "none" THEN db_threats \cup {ThreatRow(calls[c].detection, now)} ELSE db_threats
                     /\ IF exc = "none" \/ StoreCatches(exc)
                        THEN /\ calls' = [calls EXCEPT ![c].pc = "done", ![c].stores = @ + 1]
                             /\ detection_count' = detection_count + 1
                        ELSE /\ calls' = [calls EXCEPT ![c].pc = "raised", ![c].stores = @ + 1]
                             /\ UNCHANGED detection_count
                     /\ UNCHANGED <<now, phase, whitelist_ips, blocked_ips, request_counts, cache, admin, admin_ops, last_admin, burst, timed, boot>>

\* block_ip from its entry to its await of the database
BlockIp(ip) == /\ phase = "ready"
               /\ admin.pc = "idle"
               /\ admin_ops < MaxAdminOps
               /\ blocked_ips' = BlockedAdd(blocked_ips, ip)
               /\ admin' = [pc |-> "block_persist", ip |-> ip, raised |-> "none"]
               /\ admin_ops' = admin_ops + 1
               /\ last_admin' = [last_admin EXCEPT ![ip] = "block"]
               /\ UNCHANGED <<now, phase, whitelist_ips, request_counts, cache, detection_count, db_threats, calls, burst, timed, boot>>

\* unblock_ip from its entry to its await of the database
UnblockIp(ip) == /\ phase = "ready"
                 /\ admin.pc = "idle"
                 /\ admin_ops < MaxAdminOps
                 /\ blocked_ips' = BlockedDiscard(blocked_ips, ip)
                 /\ admin' = [pc |-> "unblock_persist", ip |-> ip, raised |-> "none"]
                 /\ admin_ops' = admin_ops + 1
                 /\ last_admin' = [last_admin EXCEPT ![ip] = "unblock"]
                 /\ UNCHANGED <<now, phase, whitelist_ips, request_counts, cache, detection_count, db_threats, calls, burst, timed, boot>>

\* the INSERT of block_ip ends: nothing catches what the database raised
BlockPersist(exc) == /\ admin.pc = "block_persist"
                     /\ db_threats' = IF exc = "none" THEN db_threats \cup {ManualBlockRow(admin.ip, now)} ELSE db_threats
                     /\ admin' = [pc |-> "idle", ip |-> admin.ip, raised |-> exc]
                     /\ UNCHANGED <<now, phase, whitelist_ips, blocked_ips, request_counts, cache, detection_count, calls, admin_ops, last_admin, burst, timed, boot>>

\* the UPDATE of unblock_ip ends: nothing catches what the database raised
UnblockPersist(exc) == /\ admin.pc = "unblock_persist"
                       /\ db_threats' = IF exc = "none" THEN ResolveRows(db_threats, admin.ip) ELSE db_threats
                       /\ admin' = [pc |-> "idle", ip |-> admin.ip, raised |-> exc]
                       /\ UNCHANGED <<now, phase, whitelist_ips, blocked_ips, request_counts, cache, detection_count, calls, admin_ops, last_admin, burst, timed, boot>>

\* time passes
Tick(d) == /\ now + d <= MaxTime
           /\ now' = now + d
           /\ UNCHANGED <<phase, whitelist_ips, blocked_ips, request_counts, cache, detection_count, db_threats, calls, admin, admin_ops, last_admin, burst, timed, boot>>

Next == \/ \E exc \in {"none", "PostgresError"} : Initialize(exc)
        \/ \E c \in CallIds, request_data \in Requests : Enter(c, request_data)
        \/ \E c \in CallIds : RemoteLookup(c)
        \/ \E c \in CallIds, resp \in Responses : RemoteRespond(c, resp)
        \/ \E c \in CallIds : RemoteTimeout(c)
        \/ \E c \in CallIds, exc \in StoreOutcomes : StoreDone(c, exc)
        \/ \E ip \in IPs : BlockIp(ip)
        \/ \E ip \in IPs : UnblockIp(ip)
        \/ \E exc \in StoreOutcomes : BlockPersist(exc)
        \/ \E exc \in StoreOutcomes : UnblockPersist(exc)
        \/ \E d \in TickSteps : Tick(d)

Spec == Init /\ [][Next]_vars


(***************************************************************************)
(* The rate window under a burst: many classifications of requests that    *)
(* fire no other rule.  Only the part of analyze_request before its first  *)
(* await is taken: it is the part that reads and writes request_counts     *)
(* (RemoteLookup, RemoteRespond, RemoteTimeout and StoreDone leave it      *)
(* unchanged), and on the event loop nothing runs in between.              *)
(***************************************************************************)
\* requests of IP_A that one rate window holds in SpecRate
MaxBurst == 102

\* requests of IP_B that one rate window holds in SpecRate
MaxOther == 1

\* the clock of SpecRate stops here
MaxRateTime == 60

RateTickSteps == {30}

BurstRequests == {WithIp(Shape_Benign, IP_A), WithIp(Shape_Benign, IP_B)}

BurstBound(ip) == IF ip = IP_A THEN MaxBurst ELSE MaxOther

InitRate == /\ now = 0
            /\ phase = "ready"
            /\ whitelist_ips = {}
            /\ blocked_ips = {}
            /\ request_counts = << >>
            /\ cache = << >>
            /\ detection_count = 0
            /\ db_threats = {}
            /\ calls = [c \in CallIds |-> IdleCall]
            /\ admin = [pc |-> "idle", ip |-> << >>, raised |-> "none"]
            /\ admin_ops = 0
            /\ last_admin = [ip \in IPs |-> "none"]
            /\ burst = NoBurst
            /\ timed = NoTimed
            /\ boot = NoBoot

\* what is known of the burst after one more request of ip at current_time
BurstMet(b, ip, current_time, threats) == LET violation == \E n \in 1..Len(threats) : threats[n].type = "rate_limit_violation"
                                              seen == [b EXCEPT !.last = ip, !.threats[ip] = threats, !.exceeded[ip] = @ \/ violation]
                                          IN IF b.open[ip] /\ b.n[ip] = 0
                                             THEN [seen EXCEPT !.n[ip] = 1, !.first[ip] = current_time]
                                             ELSE IF b.open[ip] /\ current_time - b.first[ip] < rate_limit_window
                                             THEN [seen EXCEPT !.n[ip] = @ + 1]
                                             ELSE [seen EXCEPT !.open[ip] = FALSE, !.n[ip] = 0, !.first[ip] = 0]

\* analyze_request from its entry to its first await, for a request of the burst
BurstEnter(request_data) == /\ phase = "ready"
                            /\ LET source_ip == Get(request_data, "ip", << >>)
                                   counts_after == RateRecord(request_counts, source_ip, now)
                                   local_detection == LocalDetection(request_data, counts_after)
                               IN /\ FastPath(source_ip, whitelist_ips, blocked_ips) = "analyze"
                                  /\ SumCounts(counts_after[source_ip]) <= BurstBound(source_ip)
                                  /\ request_counts' = counts_after
                                  /\ burst' = BurstMet(burst, source_ip, now, local_detection.threats)
                            /\ UNCHANGED <<now, phase, whitelist_ips, blocked_ips, cache, detection_count, db_threats, calls, admin, admin_ops, last_admin, timed, boot>>

RateTick(d) == /\ now + d <= MaxRateTime
               /\ now' = now + d
               /\ UNCHANGED <<phase, whitelist_ips, blocked_ips, request_counts, cache, detection_count, db_threats, calls, admin, admin_ops, last_admin, burst, timed, boot>>

NextRate == \/ \E request_data \in BurstRequests : BurstEnter(request_data)
            \/ \E d \in RateTickSteps : RateTick(d)

SpecRate == InitRate /\ [][NextRate]_vars

(***************************************************************************)
(* One classification with its elapsed time.  The clock of a call counts   *)
(* the milliseconds since analyze_request took start_time; the local       *)
(* detection, the POST and the database write each take some.  The rate    *)
(* window of the ip may already hold requests, as SpecRate leaves it.      *)
(***************************************************************************)
\* self.target_response_time, in ms
target_response_time == 50

\* the timeout analyze_request gives wait_for, in ms
wait_for_timeout == 30

\* the ms the fast path or the local detection can take
LocalDurations == {1, 25, 45}

\* the ms after which the POST is answered
RemoteLatencies == {5, 30, 60}

\* the ms the database write can take
StoreDurations == {1, 20}

\* how the POST of the timed call is answered
OneResponses == {[exc |-> "none", status |-> 200, body |-> ScoreBody(90)], [exc |-> "none", status |-> 503, body |-> NeutralResult]}

\* the requests of an ip that request_counts holds when the call is made
OneOccupancies == {0, rate_limit_threshold - 1, rate_limit_threshold, rate_limit_threshold + 1}

\* the times at which the call is made; the requests that request_counts holds
\* were made at 0 (the first two) and at 30, and the last check of any ip at 30
OneTimes == {30, 60, 90}

\* request_counts when every ip made k requests, two at time 0 and the others at time 30
SeedCounts(k) == IF k = 0 THEN << >> ELSE [ip \in IPs |-> [i \in 1..k |-> <<IF i <= 2 THEN 0 ELSE 30, 1>>]]

InitOne == /\ now \in OneTimes
           /\ phase = "ready"
           /\ whitelist_ips \in AllowLists
           /\ blocked_ips \in {{}, {IP_B}}
           /\ request_counts \in {SeedCounts(k) : k \in OneOccupancies}
           /\ cache = << >>
           /\ detection_count = 0
           /\ db_threats = {}
           /\ calls = [c \in CallIds |-> IdleCall]
           /\ admin = [pc |-> "idle", ip |-> << >>, raised |-> "none"]
           /\ admin_ops = 0
           /\ last_admin = [ip \in IPs |-> "none"]
           /\ burst = NoBurst
           /\ timed = NoTimed
           /\ boot = NoBoot

\* analyze_request from its entry to its first await (or to its return), the
\* fast path or the local detection having taken local_ms: the detection_time
\* of a result is the time elapsed when the ThreatDetection is built
OneEnter(request_data, local_ms) == /\ phase = "ready"
                                    /\ timed.pc = "idle"
                                    /\ LET source_ip == Get(request_data, "ip", << >>)
                                           way == FastPath(source_ip, whitelist_ips, blocked_ips)
                                           counts_after == RateRecord(request_counts, source_ip, now)
                                           local_detection == LocalDetection(request_data, counts_after)
                                           met == [NoTimed EXCEPT !.request = request_data, !.clock = local_ms, !.detection_time = local_ms]
                                       IN CASE way = "whitelisted" -> /\ timed' = [met EXCEPT !.pc = "done", !.detection = _create_safe_detection(request_data)]
                                                                      /\ UNCHANGED request_counts
                                            [] way = "blocked" -> /\ timed' = [met EXCEPT !.pc = "done", !.detection = _create_blocked_detection(request_data)]
                                                                  /\ UNCHANGED request_counts
                                            [] OTHER -> /\ timed' = [met EXCEPT !.pc = IF AfterLocal(local_detection.severity_level) = "remote_lookup" THEN "remote_wait" ELSE "store",
                                                                                !.local = local_detection,
                                                                                !.detection = local_detection,
                                                                                !.timeout = IF AfterLocal(local_detection.severity_level) = "remote_lookup" THEN wait_for_timeout ELSE -1]
                                                        /\ request_counts' = counts_after
                                    /\ UNCHANGED <<now, phase, whitelist_ips, blocked_ips, cache, detection_count, db_threats, calls, admin, admin_ops, last_admin, burst, boot>>

\* the remote step: the POST is answered after latency ms, or wait_for's
\* timeout passes first and analyze_threat is cancelled
OneRemote(latency, resp) == /\ timed.pc = "remote_wait"
                            /\ IF latency < timed.timeout
                               THEN /\ timed' = [timed EXCEPT !.pc = "store", !.detection = ApplySpider(@, ThreatResult(resp)), !.clock = @ + latency, !.waited = latency]
                                    /\ cache' = CacheAfter(cache, cache_key(timed.request), resp, now)
                               ELSE /\ timed' = [timed EXCEPT !.pc = "store", !.clock = @ + timed.timeout, !.waited = timed.timeout]
                                    /\ UNCHANGED cache
                            /\ UNCHANGED <<now, phase, whitelist_ips, blocked_ips, request_counts, detection_count, db_threats, calls, admin, admin_ops, last_admin, burst, boot>>

\* _store_threat_detection takes store_ms, then _update_metrics is given the
\* time elapsed since start_time, then analyze_request returns local_detection
OneStore(store_ms) == /\ timed.pc = "store"
                      /\ timed' = [timed EXCEPT !.pc = "done", !.clock = @ + store_ms, !.total = timed.clock + store_ms]
                      /\ db_threats' = db_threats \cup {ThreatRow(timed.detection, now)}
                      /\ detection_count' = detection_count + 1
                      /\ UNCHANGED <<now, phase, whitelist_ips, blocked_ips, request_counts, cache, calls, admin, admin_ops, last_admin, burst, boot>>

NextOne == \/ \E request_data \in AllRequests, local_ms \in LocalDurations : OneEnter(request_data, local_ms)
           \/ \E latency \in RemoteLatencies, resp \in OneResponses : OneRemote(latency, resp)
           \/ \E store_ms \in StoreDurations : OneStore(store_ms)

SpecOne == InitOne /\ [][NextOne]_vars


(***************************************************************************)
(* Startup and restart: what _load_blocked_ips makes of the threats table. *)
(***************************************************************************)
\* calls of initialize in one behaviour of SpecBoot
MaxBoots == 2

\* rows that the threats table may hold when the process starts
BootRows == {[threat_type |-> "sql_injection", severity_level |-> sev, source_ip |-> ip, status |-> st, detection_time |-> t] : sev \in {7, 9}, ip \in IPs, st \in {"active", "resolved"}, t \in {0, 1}}

BootDbs == {rows \in SUBSET BootRows : Cardinality(rows) <= 2}

InitBoot == /\ now \in {Day, Day + 1}
            /\ phase = "constructed"
            /\ whitelist_ips = {}
            /\ blocked_ips = {}
            /\ request_counts = << >>
            /\ cache = << >>
            /\ detection_count = 0
            /\ db_threats \in BootDbs
            /\ calls = [c \in CallIds |-> IdleCall]
            /\ admin = [pc |-> "idle", ip |-> << >>, raised |-> "none"]
            /\ admin_ops = 0
            /\ last_admin = [ip \in IPs |-> "none"]
            /\ burst = NoBurst
            /\ timed = NoTimed
            /\ boot = NoBoot

\* the process is started again: a new SentinelBot, the threats table as it was
Restart == /\ phase = "ready"
           /\ admin.pc = "idle"
           /\ boot.loads < MaxBoots
           /\ phase' = "constructed"
           /\ blocked_ips' = {}
           /\ request_counts' = << >>
           /\ cache' = << >>
           /\ detection_count' = 0
           /\ calls' = [c \in CallIds |-> IdleCall]
           /\ UNCHANGED <<now, whitelist_ips, db_threats, admin, admin_ops, last_admin, burst, timed, boot>>

NextBoot == \/ \E exc \in {"none", "PostgresError"} : Initialize(exc)
            \/ \E ip \in IPs : BlockIp(ip)
            \/ \E ip \in IPs : UnblockIp(ip)
            \/ \E exc \in StoreOutcomes : BlockPersist(exc)
            \/ \E exc \in StoreOutcomes : UnblockPersist(exc)
            \/ Restart

SpecBoot == InitBoot /\ [][NextBoot]_vars


(***************************************************************************)
(* Classifications whose cache keys meet: analyze_threat hashes the        *)
(* concatenation ip + user_agent + path.                                   *)
(***************************************************************************)
\* requests of medium local severity: two of them differ in ip and user-agent
KeyRequests == {WithIp(Shape_Traversal23, IP_A), WithIp(Shape_Traversal3, IP_B), WithIp(Shape_Sqlmap, IP_A)}

InitKey == /\ now = 0
           /\ phase = "ready"
           /\ whitelist_ips = {}
           /\ blocked_ips = {}
           /\ request_counts = << >>
           /\ cache = << >>
           /\ detection_count = 0
           /\ db_threats = {}
           /\ calls = [c \in CallIds |-> IdleCall]
           /\ admin = [pc |-> "idle", ip |-> << >>, raised |-> "none"]
           /\ admin_ops = 0
           /\ last_admin = [ip \in IPs |-> "none"]
           /\ burst = NoBurst
           /\ timed = NoTimed
           /\ boot = NoBoot

NextKey == \/ \E c \in CallIds, request_data \in KeyRequests : Enter(c, request_data)
           \/ \E c \in CallIds : RemoteLookup(c)
           \/ \E c \in CallIds, resp \in Responses : RemoteRespond(c, resp)
           \/ \E c \in CallIds : RemoteTimeout(c)
           \/ \E c \in CallIds, exc \in StoreOutcomes : StoreDone(c, exc)
           \/ \E d \in TickSteps : Tick(d)

SpecKey == InitKey /\ [][NextKey]_vars


(***************************************************************************)
(* Properties                                                              *)
(***************************************************************************)
\* a call that was made
Made(c) == calls[c].pc # "idle"

\* a call whose result is final: nothing after the remote step changes local_detection
Final(c) == calls[c].pc \in {"store", "done"}

\* the local rules that read the request alone all fire on it
FiresEveryRule(request_data) == \A n \in 1..5 : PatternSignals[request_data][n] # NoSignal

\* C1: a request whose source ip is in the allow set is classified severity 0,
\* action allow, whatever its path, parameters, headers and user-agent, and
\* no remote call is issued for it.
C1_AllowListed == \A c \in CallIds : Made(c) /\ calls[c].in_allow => /\ calls[c].pc = "done"
                                                                    /\ calls[c].detection.severity_level = 0
                                                                    /\ calls[c].detection.recommended_action = "allow"
                                                                    /\ calls[c].remote = "none"
                                                                    /\ calls[c].posts = 0

\* an allow-listed request that fires every local rule has been classified
C1_Witness == \E c \in CallIds : /\ calls[c].pc = "done"
                                 /\ calls[c].in_allow
                                 /\ FiresEveryRule(calls[c].request)
                                 /\ calls[c].detection.recommended_action = "allow"

\* C2: a request whose source ip is in the block set and not in the allow set
\* is classified severity 10, confidence 1.0, action block_immediately, and
\* no remote call is issued during the classification.
C2_BlockListed == \A c \in CallIds : Made(c) /\ calls[c].in_block /\ ~calls[c].in_allow => /\ calls[c].pc = "done"
                                                                                          /\ calls[c].detection.severity_level = 10
                                                                                          /\ calls[c].detection.confidence = 100
                                                                                          /\ calls[c].detection.recommended_action = "block_immediately"
                                                                                          /\ calls[c].remote = "none"
                                                                                          /\ calls[c].posts = 0

\* a block-listed request whose local severity would be 5 has been classified
C2_Witness == \E c \in CallIds : /\ calls[c].pc = "done"
                                 /\ calls[c].in_block
                                 /\ ~calls[c].in_allow
                                 /\ calls[c].request = WithIp(Shape_Sqlmap, IP_A)
                                 /\ calls[c].detection.severity_level = 10

\* the POST of call c was answered in time by a 200 whose threat_score is score
AnsweredWith(c, score) == /\ calls[c].remote = "answered"
                          /\ calls[c].response = [exc |-> "none", status |-> 200, body |-> ScoreBody(score)]

\* C3: an unlisted request with user-agent sqlmap/1.0 and no other rule firing
\* has local severity 5, and when the remote service answers in time with
\* threat_score 9.0 its result has severity 9 and action block_immediately;
\* whenever the local severity is in 5..7 and the remote score is above 8.0,
\* the result has severity max(local severity, 9) and action block_immediately.
C3_Escalation == \A c \in CallIds : /\ Final(c) /\ calls[c].request \in {Shape_Sqlmap, WithIp(Shape_Sqlmap, IP_A)} /\ AnsweredWith(c, 90)
                                       => /\ calls[c].local_severity = 5
                                          /\ calls[c].detection.severity_level = 9
                                          /\ calls[c].detection.recommended_action = "block_immediately"
                                    /\ Final(c) /\ calls[c].local_severity \in 5..7 /\ (calls[c].detection.spider_score > 80 \/ \E score \in Scores : score > 80 /\ AnsweredWith(c, score))
                                       => /\ calls[c].detection.severity_level = MaxOf(calls[c].local_severity, 9)
                                          /\ calls[c].detection.recommended_action = "block_immediately"

\* a sqlmap/1.0 request was answered 9.0 in time and has been classified
C3_Witness == \E c \in CallIds : /\ calls[c].pc = "done"
                                 /\ calls[c].request = WithIp(Shape_Sqlmap, IP_A)
                                 /\ AnsweredWith(c, 90)
                                 /\ calls[c].detection.severity_level = 9

\* the remote call of c failed: it timed out, failed in transport, returned
\* another status than 200, or a body that is no JSON, no JSON object, or
\* whose threat_score is no number
RemoteFailed(c) == \/ calls[c].remote = "timeout"
                   \/ /\ calls[c].remote = "answered"
                      /\ \/ calls[c].response.exc # "none"
                         \/ calls[c].response.status # 200
                         \/ calls[c].response.body.json # "object"
                         \/ calls[c].response.body.has_score /\ ~calls[c].response.body.score_is_number

\* C4: when the remote call times out, fails in transport, returns a non-200
\* status or a malformed body, the classification returns normally with the
\* local severity, the action mapped from it and remote score 0 (sqlmap/1.0:
\* severity 5, rate_limit, score 0); the failure is never raised to the caller.
C4_RemoteFailureNeutral == \A c \in CallIds : calls[c].remote # "none" /\ calls[c].pc # "remote_wait" /\ RemoteFailed(c)
                                                 => /\ Final(c)
                                                    /\ calls[c].detection.severity_level = calls[c].local_severity
                                                    /\ calls[c].detection.recommended_action = ActionFor(calls[c].local_severity)
                                                    /\ calls[c].detection.spider_score = 0
                                                    /\ calls[c].request \in {Shape_Sqlmap, WithIp(Shape_Sqlmap, IP_A)}
                                                          => calls[c].detection.severity_level = 5 /\ calls[c].detection.recommended_action = "rate_limit"

\* C5: for an unlisted ip, a request whose path contains ' OR '1'='1 produces
\* a sql_injection signal of severity 9, and every classification whose local
\* severity is 8 or more is finalized with the local result and action
\* block_immediately without any remote call.
C5_HighSeverityLocal == \A c \in CallIds : /\ Made(c) /\ calls[c].local_severity >= 0 /\ Contains(Get(calls[c].request, "path", << >>), <<"'", " ", "O", "R", " ", "'", "1", "'", "=", "'", "1">>)
                                              => \E n \in 1..Len(calls[c].detection.threats) : calls[c].detection.threats[n] = [type |-> "sql_injection", severity |-> 9]
                                           /\ Made(c) /\ calls[c].local_severity >= 8
                                              => /\ Final(c)
                                                 /\ calls[c].detection.severity_level = calls[c].local_severity
                                                 /\ calls[c].detection.spider_score = 0
                                                 /\ calls[c].detection.recommended_action = "block_immediately"
                                                 /\ calls[c].remote = "none"
                                                 /\ calls[c].posts = 0

\* an unlisted request with the injection in its path has been classified
C5_Witness == \E c \in CallIds : /\ calls[c].pc = "done"
                                 /\ ~calls[c].in_allow
                                 /\ ~calls[c].in_block
                                 /\ calls[c].request = WithIp(Shape_All, IP_A)
                                 /\ calls[c].local_severity = 9
                                 /\ calls[c].stores = 1

\* the signal of the rate check
RateSignal == [type |-> "rate_limit_violation", severity |-> 6]

\* the requests of ip made so far all lie inside one window, and there are some
InOneWindow(ip) == burst.open[ip] /\ burst.n[ip] >= 1 /\ now - burst.first[ip] < rate_limit_window

\* C6: with window 60 s and threshold 100, while the requests of one ip all
\* fall inside one window, the rate check gives no rate_limit_violation for
\* requests 1..100 and gives one, of severity 6, for request 101 and every
\* later request.
C6_RateThreshold == \A ip \in IPs : InOneWindow(ip) => ((\E n \in 1..Len(burst.threats[ip]) : burst.threats[ip][n] = RateSignal) <=> burst.n[ip] > 100)

\* the 101st request of a window, made 30 s after the first, met the violation
C6_Witness == /\ InOneWindow(IP_A)
              /\ burst.n[IP_A] = 101
              /\ burst.first[IP_A] < now
              /\ burst.threats[IP_A] = <<RateSignal>>

\* ip, user-agent and path of a request
Triple(request_data) == <<Get(request_data, "ip", << >>), Get(request_data, "user_agent", << >>), Get(request_data, "path", << >>)>>

\* call c has finished its remote step
RemoteStepDone(c) == calls[c].remote \in {"cache_hit", "answered", "timeout"} /\ calls[c].pc # "remote_wait"

\* C7 as stated: two classifications with identical (ip, user-agent, path)
\* that both reach the remote step within the cache TTL trigger exactly one
\* remote network call in total, and the second is served from the cache.
C7_ExactlyOneCall == \A c1, c2 \in CallIds : c1 # c2 /\ RemoteStepDone(c1) /\ RemoteStepDone(c2) /\ now < cache_ttl
                                                /\ Triple(calls[c1].request) = Triple(calls[c2].request)
                                                => /\ calls[c1].posts + calls[c2].posts = 1
                                                   /\ calls[c1].remote = "cache_hit" \/ calls[c2].remote = "cache_hit"

\* call o has cached a 200 for the request of call c less than the TTL ago
CachedFor(o, c) == /\ o # c
                   /\ calls[o].cached_at >= 0
                   /\ Triple(calls[o].request) = Triple(calls[c].request)
                   /\ now - calls[o].cached_at < cache_ttl

\* C7 amended: when a classification reaches the remote step after another
\* one with identical (ip, user-agent, path) had its remote call answered by
\* a 200 that was cached less than the TTL before, the two trigger exactly
\* one remote network call in total, and the second is served from the cache.
C7_CachedServed == [][\A c, o \in CallIds : calls[c].pc = "remote_lookup" /\ calls'[c].pc # "remote_lookup" /\ CachedFor(o, c)
                                               => /\ calls'[c].remote = "cache_hit"
                                                  /\ calls'[c].posts = 0
                                                  /\ calls'[o].posts = 1]_vars

\* a classification was served from the cache that another one's 200 filled
C7_Witness == \E c, o \in CallIds : /\ CachedFor(o, c)
                                    /\ calls[o].posts = 1
                                    /\ calls[c].pc = "done"
                                    /\ calls[c].remote = "cache_hit"
                                    /\ calls[c].posts = 0

\* C8: when N classifications for one unlisted ip are issued inside one
\* window, N above the threshold, the rate window of that ip holds exactly N
\* recorded requests: no interleaving of prune, append and count loses one.
C8_NoLostUpdate == \A ip \in IPs : InOneWindow(ip) => /\ ip \in DOMAIN request_counts
                                                      /\ Len(request_counts[ip]) = burst.n[ip]
                                                      /\ SumCounts(request_counts[ip]) = burst.n[ip]
                                                      /\ \A n \in 1..Len(request_counts[ip]) : InWindow(request_counts[ip][n], now)

\* 102 classifications of one ip were issued at the same time
C8_Witness == /\ InOneWindow(IP_A)
              /\ burst.n[IP_A] = 102
              /\ burst.first[IP_A] = now
              /\ Len(request_counts[IP_A]) = 102

\* the actions a result recommends
Actions == {"allow", "monitor_closely", "rate_limit", "block_immediately"}

\* C9: analyze_request always returns a result and never raises, also when
\* the remote service fails or times out, when the database write fails, and
\* when the request has no source ip (the checks still run on what it has).
C9_NeverRaises == \A c \in CallIds : /\ calls[c].pc \in {"idle", "remote_lookup", "remote_wait", "store", "done"}
                                     /\ calls[c].pc = "done" => calls[c].detection.recommended_action \in Actions
                                     /\ Made(c) /\ "ip" \notin DOMAIN calls[c].request
                                           => /\ calls[c].local_severity >= 0
                                              /\ \A n \in 1..5 : PatternSignals[calls[c].request][n] # NoSignal
                                                                     => \E m \in 1..Len(calls[c].detection.threats) : calls[c].detection.threats[m] = PatternSignals[calls[c].request][n]

\* a request without ip has been classified although its remote call failed in
\* transport and the write of its row failed
C9_Witness == \E c \in CallIds : /\ calls[c].pc = "done"
                                 /\ calls[c].request = Shape_Sqlmap
                                 /\ calls[c].remote = "answered"
                                 /\ calls[c].response.exc = "ClientError"
                                 /\ calls[c].stores = 1
                                 /\ \A r \in db_threats : r.source_ip # << >>
                                 /\ calls[c].detection.recommended_action = "rate_limit"

\* C10: block_ip and unblock_ip change blocked_ips before their database I/O,
\* so every classification that starts after the call was made, also while
\* the write is pending, sees the new membership: after block_ip(ip) an ip
\* that is not allow-listed is classified block_immediately, after
\* unblock_ip(ip) it goes through the local detection.
C10_ReadAfterWrite == \A c \in CallIds : /\ Made(c) /\ calls[c].entry_admin = "block" /\ ~calls[c].in_allow
                                            => /\ calls[c].in_block
                                               /\ calls[c].pc = "done"
                                               /\ calls[c].detection.threat_type = "blocked_ip"
                                               /\ calls[c].detection.recommended_action = "block_immediately"
                                         /\ Made(c) /\ calls[c].entry_admin = "unblock"
                                            => /\ ~calls[c].in_block
                                               /\ ~calls[c].in_allow => calls[c].local_severity >= 0 /\ calls[c].detection.threat_type # "blocked_ip"

\* a classification that started while the INSERT of block_ip was pending
C10_Witness == \E c \in CallIds : /\ calls[c].pc = "done"
                                  /\ calls[c].entry_admin = "block"
                                  /\ calls[c].entry_pending
                                  /\ ~calls[c].in_allow
                                  /\ calls[c].detection.recommended_action = "block_immediately"

\* C11: when block_ip or unblock_ip is called while the database is
\* unreachable, blocked_ips is still updated and the failure is only reported
\* as a warning: the call does not end in an exception.
C11_AdminNonFatal == admin.pc = "idle" /\ admin_ops > 0 => /\ admin.raised = "none"
                                                           /\ last_admin[admin.ip] = "block" => admin.ip \in blocked_ips
                                                           /\ last_admin[admin.ip] = "unblock" => admin.ip \notin blocked_ips

\* the action the mapping assigns to a severity
MappedAction(severity) == IF severity >= 8 THEN "block_immediately" ELSE IF severity >= 5 THEN "rate_limit" ELSE IF severity >= 3 THEN "monitor_closely" ELSE "allow"

\* C12: in every result of analyze_request, on every path, the recommended
\* action is the one the mapping assigns to the result's final severity:
\* >= 8 block_immediately, 5..7 rate_limit, 3..4 monitor_closely, < 3 allow.
C12_ActionFromSeverity == /\ \A c \in CallIds : Final(c) \/ calls[c].pc = "done" => calls[c].detection.recommended_action = MappedAction(calls[c].detection.severity_level)
                          /\ phase = "constructed" => \A request_data \in AllRequests : LET local_detection == LocalDetection(request_data, RateRecord(request_counts, Get(request_data, "ip", << >>), now))
                                                                                        IN local_detection.recommended_action = MappedAction(local_detection.severity_level)

\* results of all the paths: a remote escalation, and a listed ip
C12_Witness == \E c, o \in CallIds : /\ calls[c].pc = "done"
                                     /\ calls[c].local_severity = 5
                                     /\ calls[c].detection.severity_level = 9
                                     /\ calls[c].detection.recommended_action = "block_immediately"
                                     /\ calls[o].pc = "done"
                                     /\ (calls[o].in_allow \/ calls[o].in_block)

\* C13: a remote call is issued during a classification only when the ip is in
\* neither list and the local severity s satisfies 5 <= s < 8; when the local
\* severity is below 5 the classification is finalized with the local result
\* unchanged and remote score 0.
C13_RemoteOnlyMedium == \A c \in CallIds : /\ calls[c].posts > 0 \/ calls[c].remote # "none" \/ calls[c].pc \in {"remote_lookup", "remote_wait"}
                                              => /\ ~calls[c].in_allow
                                                 /\ ~calls[c].in_block
                                                 /\ calls[c].local_severity >= 5
                                                 /\ calls[c].local_severity < 8
                                           /\ Made(c) /\ calls[c].local_severity >= 0 /\ calls[c].local_severity < 5
                                              => /\ Final(c)
                                                 /\ calls[c].posts = 0
                                                 /\ calls[c].detection.severity_level = calls[c].local_severity
                                                 /\ calls[c].detection.recommended_action = MappedAction(calls[c].local_severity)
                                                 /\ calls[c].detection.spider_score = 0

\* an unlisted request of local severity 0 was classified, and another call
\* has issued its POST
C13_Witness == \E c, o \in CallIds : /\ calls[c].pc = "done"
                                     /\ calls[c].local_severity = 0
                                     /\ calls[c].stores = 1
                                     /\ calls[o].posts = 1
                                     /\ calls[o].local_severity = 5

\* C14: the allow-list check has priority over the block-list check: a request
\* whose ip is in both sets is classified severity 0 / allow, and block_ip for
\* an allow-listed ip does not make its requests blocked.
C14_AllowBeforeBlock == \A c \in CallIds : Made(c) /\ calls[c].in_allow /\ (calls[c].in_block \/ calls[c].entry_admin = "block")
                                              => /\ calls[c].pc = "done"
                                                 /\ calls[c].detection.threat_type # "blocked_ip"
                                                 /\ calls[c].detection.severity_level = 0
                                                 /\ calls[c].detection.recommended_action = "allow"

\* a request of an allow-listed ip was classified after block_ip for that ip
C14_Witness == \E c \in CallIds : /\ calls[c].pc = "done"
                                  /\ calls[c].in_allow
                                  /\ calls[c].in_block
                                  /\ calls[c].entry_admin = "block"
                                  /\ calls[c].detection.recommended_action = "allow"

\* C15: when a classification of an unlisted ip ends in a block decision
\* (local severity >= 8, or remote escalation), the classifier adds the ip to
\* blocked_ips, so that the next classification of that ip takes the
\* block-list short-circuit.
C15_BlockDecisionFeedsSet == \A c \in CallIds : (/\ calls[c].pc = "done"
                                                 /\ calls[c].local_severity >= 0
                                                 /\ calls[c].detection.recommended_action = "block_immediately"
                                                 /\ calls[c].detection.source_ip \in IPs
                                                 /\ last_admin[calls[c].detection.source_ip] # "unblock")
                                                   => calls[c].detection.source_ip \in blocked_ips

\* the remote call of c failed: it timed out, failed in transport, returned
\* another status than 200 or a body that is no JSON
CallFailed(c) == \/ calls[c].remote = "timeout"
                 \/ calls[c].remote = "answered" /\ (calls[c].response.exc # "none" \/ calls[c].response.status # 200)

C17_LazyExpiry == [][\A c \in CallIds : LET key == cache_key(calls[c].request)
                                        IN /\ calls[c].pc = "remote_lookup" /\ calls'[c].pc # "remote_lookup"
                                              => /\ calls'[c].remote = "cache_hit" => key \in DOMAIN cache /\ now - cache[key].timestamp < 300
                                                 /\ key \in DOMAIN cache /\ now - cache[key].timestamp >= 300 => calls'[c].pc = "remote_wait" /\ calls'[c].posts = calls[c].posts + 1
                                           /\ calls[c].pc = "remote_wait" /\ calls'[c].remote = "answered" /\ calls'[c].response.exc = "none" /\ calls'[c].response.status = 200
                                              => /\ key \in DOMAIN cache'
                                                 /\ cache'[key].timestamp = now
                                                 /\ cache'[key].result = calls'[c].response.body]_vars

\* an entry cached at 0 was looked up at 300, and the answer to the new POST
\* replaced it
C17_Witness == \E c, o \in CallIds : /\ c # o
                                     /\ cache_key(calls[c].request) = cache_key(calls[o].request)
                                     /\ calls[o].cached_at = 0
                                     /\ calls[c].cached_at = 300
                                     /\ calls[c].posts = 1
                                     /\ cache[cache_key(calls[c].request)].timestamp = 300

\* C18: every classification, whichever path it takes, is recorded once in
\* the metrics: the metrics count equals the number of classifications that
\* completed.
C18_MetricsCountAll == detection_count = Cardinality({c \in CallIds : calls[c].pc = "done"})

\* C19: every classification, whichever path it takes, hands exactly one
\* detection record to the database.
C19_OneRecordEach == \A c \in CallIds : calls[c].pc = "done" => calls[c].stores = 1

\* C20: within one classification the only suspension point is the remote
\* call: a classification with local severity >= 8 or < 5 runs from entry to
\* its returned result without yielding and without waiting for the database
\* write to finish.
C20_OnlyRemoteSuspends == \A c \in CallIds : Made(c) /\ calls[c].local_severity >= 0 /\ (calls[c].local_severity >= 8 \/ calls[c].local_severity < 5) => calls[c].pc = "done"

\* C21 as stated: the deadline given to the remote call is min(remaining
\* budget of this classification, 30 ms): the remote step never waits longer
\* than what is left of the 50 ms budget, and never longer than 30 ms.
C21_DeadlineFromBudget == timed.pc \in {"remote_wait", "store"} /\ timed.timeout >= 0
                             => /\ timed.timeout = MinOf(target_response_time - (timed.clock - timed.waited), 30)
                                /\ timed.waited <= MinOf(target_response_time - (timed.clock - timed.waited), 30)

\* C22 as stated: in every returned result the remote score is 0 unless the
\* remote service was consulted during that classification; so the results
\* of the allow-list and block-list short-circuits, of local severity >= 8
\* and of local severity < 5 carry remote score 0.
C22_ScoreZeroUnlessConsulted == timed.pc = "done" /\ timed.timeout < 0 => timed.detection.spider_score = 0

\* some value of the headers holds a raw newline or carriage return
HasRawNewline(headers) == \E n \in 1..Len(headers) : \E i \in 1..Len(headers[n][2]) : headers[n][2][i] \in {"\n", "\r"}

\* C23 as stated: the header-injection rule fires for any header: a request
\* in which some header value, under any header name, contains a raw newline
\* or carriage return yields a header_injection signal of severity 7.
C23_AnyHeaderName == timed.local # NoDetection /\ HasRawNewline(Get(timed.request, "headers", << >>))
                        => \E i \in 1..Len(timed.local.threats) : timed.local.threats[i] = [type |-> "header_injection", severity |-> 7]

\* the six rules in the order of evaluation
RuleOrder == <<"sql_injection", "xss", "path_traversal", "suspicious_user_agent", "rate_limit_violation", "header_injection">>

\* the place of a threat type in RuleOrder
RuleRank(type) == CHOOSE n \in 1..6 : RuleOrder[n] = type

\* C24: the local evaluation runs all six rules in the fixed order
\* sql_injection, xss, path_traversal, suspicious_user_agent,
\* rate_limit_violation, header_injection without short-circuiting: every
\* rule that fires on the request has its signal among the threats, in that
\* order; the aggregate severity is the maximum severity of the signals (0 if
\* none) and the primary threat type is the type of the first signal, even
\* when a later one is more severe: suspicious_user_agent 5 with
\* header_injection 7 gives type suspicious_user_agent, severity 7.
C24_AllRulesInOrder == timed.local # NoDetection
                          => LET d == timed.local
                                 threats == d.threats
                                 fired == RuleResults(timed.request, request_counts)
                             IN /\ \A n \in 1..6 : fired[n] # NoSignal => \E i \in 1..Len(threats) : threats[i] = fired[n] /\ threats[i].type = RuleOrder[n]
                                /\ \A i \in 1..Len(threats) : threats[i].type \in {RuleOrder[n] : n \in 1..6} /\ fired[RuleRank(threats[i].type)] = threats[i]
                                /\ \A i, j \in 1..Len(threats) : i < j => RuleRank(threats[i].type) < RuleRank(threats[j].type)
                                /\ Len(threats) = 0 => d.severity_level = 0 /\ d.threat_type = "none"
                                /\ Len(threats) > 0 => /\ \E i \in 1..Len(threats) : d.severity_level = threats[i].severity
                                                       /\ \A i \in 1..Len(threats) : d.severity_level >= threats[i].severity
                                                       /\ d.threat_type = threats[1].type
                                /\ Get(timed.request, "user_agent", << >>) = UA_Sqlmap /\ Get(timed.request, "path", << >>) = Path_Plain /\ Get(timed.request, "headers", << >>) = Hdr_Injected
                                   => d.threat_type = "suspicious_user_agent" /\ d.severity_level = 7

\* a classification whose first signal, suspicious_user_agent 5, is followed
\* by rate_limit_violation 6 and header_injection 7, has ended
C24_Witness == /\ timed.pc = "done"
               /\ timed.local.threat_type = "suspicious_user_agent"
               /\ timed.local.severity_level = 7
               /\ Len(timed.local.threats) = 3
               /\ timed.local.threats[1].severity = 5

\* the entries of ip that are inside the window ending at current_time
EntriesInWindow(counts, ip, current_time) == IF ip \in DOMAIN counts THEN Cardinality({i \in 1..Len(counts[ip]) : counts[ip][i][1] > current_time - rate_limit_window}) ELSE 0

\* C25: every call of the local evaluation records the current request into
\* the rate window of its ip exactly once, whether or not any other rule
\* fired and whether or not the rate check reports a violation: the window
\* has one entry more than it had inside the trailing 60 s, the new entry is
\* the last, and no later step of the classification adds another.
C25_RecordsOnce == [][/\ timed.pc = "idle" /\ timed'.local # NoDetection
                         => LET ip == Get(timed'.request, "ip", << >>)
                            IN /\ ip \in DOMAIN request_counts'
                               /\ Len(request_counts'[ip]) = EntriesInWindow(request_counts, ip, now) + 1
                               /\ request_counts'[ip][Len(request_counts'[ip])] = <<now, 1>>
                      /\ timed.pc # "idle" => request_counts' = request_counts]_vars

\* a request that met a full window was recorded as its 101st entry and
\* reported as a violation, and one that met an old window as the only entry
C25_Witness == /\ timed.pc = "done"
               /\ LET ip == Get(timed.request, "ip", << >>)
                  IN /\ ip \in DOMAIN request_counts
                     /\ Len(request_counts[ip]) = rate_limit_threshold + 1
                     /\ request_counts[ip][rate_limit_threshold + 1] = <<now, 1>>
                     /\ \E i \in 1..Len(timed.local.threats) : timed.local.threats[i].type = "rate_limit_violation"

\* C26 as stated: the detection latency stored on the returned result is the
\* total elapsed time of the whole classification on every path, so for a
\* medium-severity classification it includes the time of the remote call.
C26_LatencyIsTotal == timed.pc = "done" => timed.detection_time = timed.clock

\* C27: the cache is written only by a successful (HTTP 200) remote
\* response, in the step that hands the response to the classifier; a neutral
\* score from a timeout, a transport error or a non-200 status is never
\* stored, so a later lookup of the same key finds nothing and issues a new
\* network call.
C27_OnlySuccessCached == [][/\ cache' # cache => \E c \in CallIds : /\ calls[c].pc = "remote_wait"
                                                                    /\ calls'[c].remote = "answered"
                                                                    /\ calls'[c].response.exc = "none" /\ calls'[c].response.status = 200
                                                                    /\ cache' = [k \in DOMAIN cache \cup {cache_key(calls[c].request)} |->
                                                                                    IF k = cache_key(calls[c].request) THEN [result |-> calls'[c].response.body, timestamp |-> now] ELSE cache[k]]
                            /\ \A c \in CallIds : calls[c].pc = "remote_wait" /\ calls'[c].pc # "remote_wait" /\ CallFailed(c)' => cache' = cache
                            /\ \A c \in CallIds : calls[c].pc = "remote_lookup" /\ calls'[c].pc # "remote_lookup" /\ cache_key(calls[c].request) \notin DOMAIN cache
                                                     => calls'[c].pc = "remote_wait" /\ calls'[c].posts = calls[c].posts + 1]_vars

\* after the remote call of one classification failed, another one with the
\* same key found no entry and issued its own POST
C27_Witness == \E c, o \in CallIds : /\ c # o
                                     /\ cache_key(calls[c].request) = cache_key(calls[o].request)
                                     /\ calls[o].pc = "done"
                                     /\ CallFailed(o)
                                     /\ calls[c].pc = "remote_wait"
                                     /\ calls[c].posts = 1
                                     /\ cache_key(calls[c].request) \notin DOMAIN cache

\* the ips with a stored row of severity >= 8 within the trailing 24 hours
SevereInDay(rows, current_time) == {r.source_ip : r \in {x \in rows : x.severity_level >= 8 /\ x.detection_time >= current_time - 86400}}

\* the same, of the rows whose status is still active
ActiveSevereInDay(rows, current_time) == {r.source_ip : r \in {x \in rows : x.severity_level >= 8 /\ x.detection_time >= current_time - 86400 /\ x.status = "active"}}

\* a startup that loaded the block set
Loaded == phase = "constructed" /\ phase' = "ready" /\ boot'.result = "loaded"

C29_IdleKeysDropped == [][request_counts' # request_counts => \A ip \in DOMAIN request_counts' : request_counts'[ip] # << >>]_vars

\* C30: a remote response that arrives after the 30 ms of the remote step
\* have passed is neither attached to the result of that classification (its
\* severity, action and remote score stay the local ones) nor written to the
\* cache: the timeout leaves the cache as it was, and from then on the result
\* is the local one and only the POST of another classification writes the
\* cache.
C30_LateResponseDropped == [][\A c \in CallIds : /\ calls[c].pc = "remote_wait" /\ calls'[c].remote = "timeout"
                                                   => cache' = cache /\ calls'[c].detection = calls[c].detection
                                                /\ calls[c].remote = "timeout"
                                                   => /\ calls'[c].remote = "timeout"
                                                      /\ calls'[c].detection.severity_level = calls[c].local_severity
                                                      /\ calls'[c].detection.recommended_action = MappedAction(calls[c].local_severity)
                                                      /\ calls'[c].detection.spider_score = 0
                                                      /\ calls'[c].cached_at = -1
                                                      /\ cache' # cache => \E o \in CallIds \ {c} : calls[o].pc = "remote_wait" /\ calls'[o].remote = "answered"]_vars

\* a classification of local severity 5..7 ended after its remote step timed
\* out, and the cache holds nothing for its key
C30_Witness == \E c \in CallIds : /\ calls[c].pc = "done"
                                  /\ calls[c].remote = "timeout"
                                  /\ calls[c].local_severity \in 5..7
                                  /\ calls[c].detection.severity_level = calls[c].local_severity
                                  /\ cache_key(calls[c].request) \notin DOMAIN cache

\* C31: once an ip is in blocked_ips after startup, it stays there until
\* unblock_ip is called for that same ip: no classification, no block_ip or
\* unblock_ip of another ip, and no update of the cache, of the rate windows
\* or of the metrics removes it.
C31_BlockedUntilUnblock == [][\A ip \in IPs : phase = "ready" /\ ip \in blocked_ips /\ ip \notin blocked_ips'
                                                 => /\ admin.pc = "idle"
                                                    /\ admin'.pc = "unblock_persist"
                                                    /\ admin'.ip = ip
                                                    /\ last_admin'[ip] = "unblock"]_vars

\* the ip loaded at startup is still blocked after the other ip was
\* unblocked and two classifications filled the rate windows, the cache and
\* the metrics
C31_Witness == /\ IP_B \in blocked_ips
               /\ boot.result = "loaded"
               /\ last_admin[IP_A] = "unblock"
               /\ admin.pc = "idle"
               /\ \A c \in CallIds : calls[c].pc = "done"
               /\ detection_count > 0
               /\ cache # << >>
               /\ request_counts # << >>

\* C32: the final severity of every result lies in 0..10 and is never lower
\* than the local severity; it differs from the local severity only when the
\* local severity is in 5..7 and the remote score is strictly greater than
\* 8.0: a remote score of exactly 8.0 or less leaves severity and action as
\* computed locally.
C32_SeverityRange == \A c \in CallIds : Final(c) => LET d == calls[c].detection
                                                        local == calls[c].local_severity
                                                    IN /\ d.severity_level \in 0..10
                                                       /\ local >= 0 => /\ d.severity_level >= local
                                                                        /\ d.severity_level # local => local \in 5..7 /\ d.spider_score > 80
                                                                        /\ d.spider_score <= 80 => d.severity_level = local /\ d.recommended_action = MappedAction(local)

\* the remote service answered a classification of local severity 5 with the
\* score 8.0, and the result kept severity 5 and rate_limit
C32_Witness == \E c \in CallIds : /\ calls[c].pc = "done"
                                  /\ AnsweredWith(c, 80)
                                  /\ calls[c].local_severity = 5
                                  /\ calls[c].detection.spider_score = 80
                                  /\ calls[c].detection.severity_level = 5
                                  /\ calls[c].detection.recommended_action = "rate_limit"

\* C33 as stated: two requests that differ in at least one of (ip,
\* user-agent, path) never share a cache entry: the score cached for one
\* triple is never returned for a different triple (e.g. ip "1" with
\* user-agent "23" versus ip "12" with user-agent "3").
C33_NoSharedEntry == [][\A c \in CallIds : calls[c].pc = "remote_lookup" /\ calls'[c].remote = "cache_hit"
                                              => \E o \in CallIds \ {c} : /\ calls[o].cached_at >= 0
                                                                          /\ Triple(calls[o].request) = Triple(calls[c].request)]_vars

\* the last rate check was one of ip
Checked(ip) == request_counts' # request_counts /\ burst'.last = ip

\* C34: rate windows are isolated per identifier: a rate check for ip A
\* never adds a request to the window of another ip B and never changes the
\* number of B's requests that are still inside the window, so traffic from
\* A alone never causes a rate_limit_violation for B.
C34_WindowsIsolated == [][\A a, b \in IPs : a # b /\ Checked(a)
                                               => /\ b \in DOMAIN request_counts' <=> b \in DOMAIN request_counts
                                                  /\ b \in DOMAIN request_counts => /\ Len(request_counts'[b]) <= Len(request_counts[b])
                                                                                    /\ EntriesInWindow(request_counts', b, now) = EntriesInWindow(request_counts, b, now)
                                                  /\ burst'.threats[b] = burst.threats[b]
                                                  /\ burst'.exceeded[b] = burst.exceeded[b]]_vars

\* after more than 100 requests of IP_A inside one window, a request of IP_B
\* was recorded alone in its window and met no violation
C34_Witness == /\ burst.last = IP_B
               /\ burst.exceeded[IP_A]
               /\ ~burst.exceeded[IP_B]
               /\ IP_A \in DOMAIN request_counts
               /\ Len(request_counts[IP_A]) > rate_limit_threshold
               /\ Len(request_counts[IP_B]) = 1
               /\ burst.threats[IP_B] = << >>

\* C35: a rate-limit violation is not sticky: after an ip exceeded the
\* threshold, once all but at most threshold - 1 of its recorded requests are
\* older than the window, the next request of that ip yields no
\* rate_limit_violation signal.
C35_NotSticky == [][timed.pc = "idle" /\ timed'.local # NoDetection
                       /\ EntriesInWindow(request_counts, Get(timed'.request, "ip", << >>), now) <= rate_limit_threshold - 1
                       => \A n \in 1..Len(timed'.local.threats) : timed'.local.threats[n].type # "rate_limit_violation"]_vars

\* an ip had made 101 requests inside one window; when all but 99 of them had
\* left the window, its next request was recorded as the 100th and met no
\* violation
C35_Witness == /\ timed.pc = "done"
               /\ now = 60
               /\ timed.local # NoDetection
               /\ \A n \in 1..Len(timed.local.threats) : timed.local.threats[n].type # "rate_limit_violation"
               /\ LET ip == Get(timed.request, "ip", << >>)
                  IN /\ ip \in DOMAIN request_counts
                     /\ Len(request_counts[ip]) = rate_limit_threshold
                     /\ request_counts[ip][1] = <<30, 1>>

\* C36: a classification that takes the allow-list or the block-list
\* short-circuit leaves the rate-window map and the intel cache unchanged:
\* requests from listed ips are not counted in any rate window.
C36_ShortCircuitFrame == [][\A c \in CallIds : calls[c].pc = "idle" /\ calls'[c].pc # "idle" /\ (calls'[c].in_allow \/ calls'[c].in_block)
                                                  => /\ request_counts' = request_counts
                                                     /\ cache' = cache
                                                     /\ calls'[c].pc = "done"
                                                     /\ calls'[c].posts = 0]_vars

\* after a classification that ran the local detection, one of a blocked ip
\* ended, and the rate windows hold no entry for that ip
C36_Witness == \E c, o \in CallIds : /\ c # o
                                     /\ calls[c].pc = "done"
                                     /\ calls[c].in_block
                                     /\ calls[o].local_severity >= 0
                                     /\ request_counts # << >>
                                     /\ Get(calls[c].request, "ip", << >>) \notin DOMAIN request_counts

====
